---- MODULE Spec2Model ----
(***************************************************************************)
(* Model of src/app.py: the PersistentGlobalState room/message store, the   *)
(* EncryptionHandler helpers and the parts of the Streamlit script that     *)
(* read and append to a room's hash-chained message list.                   *)
(*                                                                          *)
(* Python objects are modelled by value except for the per-room message     *)
(* list, which is a mutable object shared by reference: get_room returns    *)
(* ROOMS[room_id].copy(), a shallow copy whose "messages" entry is the very *)
(* list object held by the store.  The variable `lists` is the heap of      *)
(* list objects and a room record holds a list id.                          *)
(*                                                                          *)
(* Every store method runs `with self._lock:`; a call is two steps: the     *)
(* call site acquires the lock, the method body runs and releases it.       *)
(* Steps of the script that touch no lock interleave freely with them.      *)
(*                                                                          *)
(* A session is a script thread that calls the store as chat_interface,     *)
(* create_room_section and join_room_section do.                            *)
(*                                                                          *)
(* Specifications:                                                          *)
(*   Spec         the store and the send flow of two sessions in one room.  *)
(*                The sidebar's activity and theme calls and the render     *)
(*                loop write neither ROOMS nor a message list and are left  *)
(*                out; so are the should_cleanup_messages calls of lines    *)
(*                919 and 1058, which take the non-reentrant lock twice:    *)
(*                a session gets past them.                                 *)
(*   SpecRooms    the create, enter and send steps with two room ids.       *)
(*   SpecRender   a process started from a state file whose room holds a    *)
(*                chain of sends, intact or with one field changed; one     *)
(*                session joins and its render loop writes the page.        *)
(*   SpecLock     the sidebar's store calls in script order, up to the      *)
(*                should_cleanup_messages call, with the lock as it is.     *)
(*   SpecUpdater  Spec without failing writes, with the auto-update poll    *)
(*                of lines 1016-1023 between get_room and the chat.         *)
(*   SpecSidebar  the sidebar, the clear button, the send flow and LEAVE,   *)
(*                taken past should_cleanup_messages with the value its     *)
(*                body computes (should_cleanup_messages_return).           *)
(***************************************************************************)
EXTENDS Integers, Sequences, FiniteSets, TLC

\* ------------------------------------------------------------------ bounds
NSessions == 2        \* concurrent browser sessions (script threads)
MaxTime   == 1        \* the clock is read at 0, 30, .. MaxTime * 30 seconds
MaxRandom == 4        \* os.urandom draws (a Fernet IV or a uuid4 each)
MaxLists  == 4        \* list objects alive at once
MaxSaveFailures == 1  \* writes of the state file that fail

Sessions  == 1..NSessions
ListIds   == 1..MaxLists
RoomIds   == {"TEST-A1B2"}                \* results of generate_room_id
TypedIds  == RoomIds \cup {"NOPE-0000"}   \* ids a caller can name
TwoRoomIds == RoomIds \cup {"DEMO-C3D4"}  \* generate_room_id, a second name
RoomNames == {"Test"}
Keys      == {"key1"}                      \* results of Fernet.generate_key()
Inputs    == {" hello "}                   \* text typed into the message box

None      == "None"
InactiveAfter == 30                        \* seconds (lines 120 and 138)
EmptyDict == [k \in {} |-> 0]              \* the Python dict {}
Genesis   == << >>                         \* "0" * 64

VARIABLES
    ROOMS,           \* room_id -> room record; "messages" holds a list id
    lists,           \* list id -> sequence of message records (the heap)
    ACTIVE_USERS,    \* room_id -> (user_id -> last seen)
    CHANNEL_THEMES,  \* room_id -> theme name
    ENCRYPTION_KEY,  \* the process-wide Fernet key
    disk,            \* chat_state.pkl: << >> (no file) or <<state_data>>
    lock,            \* PersistentGlobalState._lock: 0 free, else the holder
    now,             \* the wall clock read by time.time()
    urandom,         \* number of os.urandom draws so far; draw n yields n
    failures,        \* number of state file writes that failed so far
    pc,              \* where each session's script thread is
    current_room,    \* st.session_state.current_room
    room_data,       \* chat_interface's local room_data
    message,         \* the text submitted with SEND
    previous_hash,   \* send flow local
    encrypted_msg,   \* send flow local
    current_hash,    \* send flow local
    call,            \* arguments of the store call in progress
    ret,             \* True/False a store call returned, until the next call
    sent,            \* history: messages handed to add_message for a room
    acked,           \* history: appends that returned True since the last clear
    cleared,         \* history: rooms clear_room_messages has emptied
    page,            \* what the render loop wrote in each session's run
    button,          \* the sidebar's "Clear All Messages" button, per session
    auto_updater,    \* st.session_state.auto_updater and last_activity_update
    seen             \* history: the messages appended when it last said True

store == <<ROOMS, lists, ACTIVE_USERS, CHANNEL_THEMES, ENCRYPTION_KEY, disk>>
local == <<message, previous_hash, encrypted_msg, current_hash, page, button, auto_updater, seen>>
ghost == <<sent, acked, cleared>>
vars  == <<ROOMS, lists, ACTIVE_USERS, CHANNEL_THEMES, ENCRYPTION_KEY, disk,
           lock, now, urandom, failures, pc, current_room, room_data,
           message, previous_hash, encrypted_msg, current_hash, call, ret,
           sent, acked, cleared, page, button, auto_updater, seen>>

\* ------------------------------------------------------------ pure helpers
TwiceUpdateInterval == 1                   \* update_interval = 0.5 seconds

\* the 0 of lines 805 and 846 on the clock of the model, which counts from the
\* start of the process: the epoch, a reading from before the start
Epoch == 0 - InactiveAfter

\* UltraFastAutoUpdater.__init__ (lines 803-806) and line 846
UltraFastAutoUpdater ==
    [last_message_count |-> 0, last_check_time |-> Epoch,
     last_activity_update |-> Epoch]

\* current_time - last < 0.5
WithinInterval(current_time, last) ==
    2 * (current_time - last) < TwiceUpdateInterval

\* str.strip() on the inputs of the model
strip(text) ==
    CASE text = " hello " -> "hello"
      [] text = " world"  -> "world"
      [] text = "   "     -> ""
      [] OTHER            -> text

\* a cipher that encrypts the empty string whatever it is given
encrypt_nothing(key, plaintext, iv) == [key |-> key, plaintext |-> "", iv |-> iv]

\* Fernet(key).encrypt: an authenticated token bound to the key, the
\* plaintext and a random IV
encrypt(key, plaintext, iv) == [key |-> key, plaintext |-> plaintext, iv |-> iv]

NoToken == [key |-> "", plaintext |-> "", iv |-> 0]

\* Fernet(key).decrypt: the plaintext of a token made with the same key;
\* any other token raises InvalidToken
decrypt(key, token) ==
    IF token.key = key
    THEN [raised |-> FALSE, value |-> token.plaintext]
    ELSE [raised |-> TRUE, value |-> "InvalidToken"]

\* hashlib.sha256(data.encode()).hexdigest(), collision free and never the
\* all-zero digest: the digest is represented by the string it was taken of
calculate_hash(data) == <<data>>

\* f"{encrypted_msg}{previous_hash}{time.time()}": the formatted parts in order
data_to_hash(enc, prev, t) == <<enc, prev, t>>

NoMsg ==
    [encrypted_message |-> NoToken, timestamp |-> 0, hash |-> Genesis,
     previous_hash |-> Genesis, user_id |-> 0, message_id |-> 0,
     reactions |-> << >>]

NoCall == [room_id |-> None, room_name |-> "", message_data |-> NoMsg]

\* the first two entries of the selectbox of lines 877-882
Themes == {"Cinematic Dark", "Neon Purple"}

\* st.session_state.user_id of a session
user_id(s) == s

\* an EncryptionHandler that generates a key of its own when none is given
EncryptionHandler_generate(key) ==
    IF key # None THEN key
    ELSE IF urandom % 2 = 0 THEN "key1" ELSE "key2"

\* EncryptionHandler.__init__ (lines 200-205): the key of the handler's
\* cipher, the process-wide key unless one is passed
EncryptionHandler(key) == IF key # None THEN key ELSE ENCRYPTION_KEY

\* ------------------------------------------------------------ the list heap
\* list ids referenced by a room record or by a session's room_data
Referenced(rooms, rds) ==
    {rooms[r].messages : r \in DOMAIN rooms}
        \cup {rds[s].messages : s \in {x \in Sessions : DOMAIN rds[x] # {}}}

\* reference counting: a list object nobody references is freed
Heap(ls, rooms, rds) ==
    [l \in ListIds |-> IF l \in Referenced(rooms, rds) THEN ls[l] ELSE << >>]

FreeLists == ListIds \ Referenced(ROOMS, room_data)

\* the id of a newly allocated list object
NewList == CHOOSE l \in FreeLists : \A m \in FreeLists : l <= m

\* list.insert(0, x) in place of list.append(x)
ListInsertFront(l, x) == <<x>> \o l

\* list.append(x)
ListAppend(l, x) == Append(l, x)

\* ------------------------------------------------------------- persistence
\* the dict _save_state pickles: every object by value
state_data(rooms, ls, users, themes, key) ==
    [rooms |-> [r \in DOMAIN rooms |-> [rooms[r] EXCEPT !.messages = ls[@]]],
     encryption_key |-> key,
     active_users |-> users,
     channel_themes |-> themes]

\* _save_state: the write succeeds, or open() raises, the file stays as it
\* was and the error is swallowed
save_state(ok, rooms, ls, users, themes, key) ==
    IF ok THEN <<state_data(rooms, ls, users, themes, key)>> ELSE disk

\* _load_state on an existing state file (lines 33-40): the store a new
\* process builds from the pickled dict, each room with a list object of
\* its own
load_state(file) ==
    LET at == CHOOSE f \in [DOMAIN file.rooms -> ListIds] :
                 \A a, b \in DOMAIN file.rooms : a # b => f[a] # f[b] IN
      [ROOMS |-> [r \in DOMAIN file.rooms |->
                    [file.rooms[r] EXCEPT !.messages = at[r]]],
       lists |-> [l \in ListIds |->
                    IF \E r \in DOMAIN file.rooms : at[r] = l
                    THEN file.rooms[CHOOSE r \in DOMAIN file.rooms :
                                      at[r] = l].messages
                    ELSE << >>],
       ENCRYPTION_KEY |-> file.encryption_key,
       ACTIVE_USERS |-> file.active_users,
       CHANNEL_THEMES |-> file.channel_themes]

\* --------------------------------------------------------- store operations
\* get_room: ROOMS.get(room_id, {}).copy(), a shallow copy
get_room(room_id) ==
    IF room_id \in DOMAIN ROOMS THEN ROOMS[room_id] ELSE EmptyDict

\* add_message that registers a missing room on the fly (ROOMS.setdefault)
add_message_setdefault(room_id, message_data) ==
    IF room_id \notin DOMAIN ROOMS
    THEN [ret |-> "True", save |-> TRUE,
          rooms |-> (room_id :> [messages |-> NewList,
                                 created_at |-> now,
                                 name |-> "",
                                 room_id |-> room_id,
                                 message_count |-> 0]) @@ ROOMS,
          lists |-> [lists EXCEPT ![NewList] = <<message_data>>],
          users |-> ACTIVE_USERS, themes |-> CHANNEL_THEMES]
    ELSE [ret |-> "True", save |-> TRUE, rooms |-> ROOMS,
          lists |-> [lists EXCEPT ![ROOMS[room_id].messages] =
                                      Append(@, message_data)],
          users |-> ACTIVE_USERS, themes |-> CHANNEL_THEMES]

\* add_message that keeps a message only when it is chained to the current
\* tail, and reports success either way
add_message_drop_unchained(room_id, message_data) ==
    IF room_id \notin DOMAIN ROOMS
    THEN [ret |-> "False", save |-> FALSE, rooms |-> ROOMS, lists |-> lists,
          users |-> ACTIVE_USERS, themes |-> CHANNEL_THEMES]
    ELSE [ret |-> "True", save |-> TRUE, rooms |-> ROOMS,
          lists |-> [lists EXCEPT ![ROOMS[room_id].messages] =
                       IF message_data.previous_hash =
                            (IF @ = << >> THEN Genesis ELSE @[Len(@)].hash)
                       THEN Append(@, message_data)
                       ELSE @],
          users |-> ACTIVE_USERS, themes |-> CHANNEL_THEMES]

\* add_message that leaves the state file alone
add_message_unsaved(room_id, message_data) ==
    IF room_id \notin DOMAIN ROOMS
    THEN [ret |-> "False", save |-> FALSE, rooms |-> ROOMS, lists |-> lists,
          users |-> ACTIVE_USERS, themes |-> CHANNEL_THEMES]
    ELSE [ret |-> "True", save |-> FALSE, rooms |-> ROOMS,
          lists |-> [lists EXCEPT ![ROOMS[room_id].messages] =
                                      Append(@, message_data)],
          users |-> ACTIVE_USERS, themes |-> CHANNEL_THEMES]

\* add_message (lines 76-84): append under the lock, no check of the
\* message against the current tail.  Every room record is made by
\* create_room with a "messages" list, so lines 80-81 never run.
add_message(room_id, message_data) ==
    IF room_id \notin DOMAIN ROOMS
    THEN [ret |-> "False", save |-> FALSE, rooms |-> ROOMS, lists |-> lists,
          users |-> ACTIVE_USERS, themes |-> CHANNEL_THEMES]
    ELSE [ret |-> "True", save |-> TRUE, rooms |-> ROOMS,
          lists |-> [lists EXCEPT ![ROOMS[room_id].messages] =
                                      ListAppend(@, message_data)],
          users |-> ACTIVE_USERS, themes |-> CHANNEL_THEMES]

\* create_room without the test of line 89: the record is written anyway
create_room_overwrite(room_id, room_name) ==
    [ret |-> "True", save |-> TRUE,
     rooms |-> (room_id :> [messages |-> NewList,
                            created_at |-> now,
                            name |-> room_name,
                            room_id |-> room_id,
                            message_count |-> 0]) @@ ROOMS,
     lists |-> [lists EXCEPT ![NewList] = << >>],
     users |-> (room_id :> EmptyDict) @@ ACTIVE_USERS,
     themes |-> (room_id :> "Cinematic Dark") @@ CHANNEL_THEMES]

\* create_room (lines 86-100)
create_room(room_id, room_name) ==
    IF room_id \notin DOMAIN ROOMS
    THEN [ret |-> "True", save |-> TRUE,
          rooms |-> (room_id :> [messages |-> NewList,
                                 created_at |-> now,
                                 name |-> room_name,
                                 room_id |-> room_id,
                                 message_count |-> 0]) @@ ROOMS,
          lists |-> [lists EXCEPT ![NewList] = << >>],
          users |-> (room_id :> EmptyDict) @@ ACTIVE_USERS,
          themes |-> (room_id :> "Cinematic Dark") @@ CHANNEL_THEMES]
    ELSE [ret |-> "False", save |-> FALSE, rooms |-> ROOMS, lists |-> lists,
          users |-> ACTIVE_USERS, themes |-> CHANNEL_THEMES]

\* clear_room_messages that drops the oldest message of the list in place
clear_room_messages_oldest(room_id) ==
    IF room_id \in DOMAIN ROOMS
    THEN [ret |-> "True", save |-> TRUE, rooms |-> ROOMS,
          lists |-> [lists EXCEPT ![ROOMS[room_id].messages] =
                       IF @ = << >> THEN @ ELSE Tail(@)],
          users |-> ACTIVE_USERS, themes |-> CHANNEL_THEMES]
    ELSE [ret |-> "False", save |-> FALSE, rooms |-> ROOMS, lists |-> lists,
          users |-> ACTIVE_USERS, themes |-> CHANNEL_THEMES]

\* clear_room_messages that replaces the room record by a new one
clear_room_messages_recreate(room_id) ==
    IF room_id \in DOMAIN ROOMS
    THEN [ret |-> "True", save |-> TRUE,
          rooms |-> [ROOMS EXCEPT ![room_id] =
                       [messages |-> NewList,
                        created_at |-> now,
                        name |-> @.name,
                        room_id |-> room_id,
                        message_count |-> 0]],
          lists |-> [lists EXCEPT ![NewList] = << >>],
          users |-> ACTIVE_USERS, themes |-> CHANNEL_THEMES]
    ELSE [ret |-> "False", save |-> FALSE, rooms |-> ROOMS, lists |-> lists,
          users |-> ACTIVE_USERS, themes |-> CHANNEL_THEMES]

\* clear_room_messages (lines 179-190): the room gets a new empty list
\* object; the old one stays with whoever still references it
clear_room_messages(room_id) ==
    IF room_id \in DOMAIN ROOMS
    THEN [ret |-> "True", save |-> TRUE,
          rooms |-> [ROOMS EXCEPT ![room_id].messages = NewList],
          lists |-> [lists EXCEPT ![NewList] = << >>],
          users |-> ACTIVE_USERS, themes |-> CHANNEL_THEMES]
    ELSE [ret |-> "False", save |-> FALSE, rooms |-> ROOMS, lists |-> lists,
          users |-> ACTIVE_USERS, themes |-> CHANNEL_THEMES]

\* update_user_activity (lines 102-108)
update_user_activity(room_id, uid) ==
    [ret |-> None, save |-> TRUE, rooms |-> ROOMS, lists |-> lists,
     users |-> [r \in DOMAIN ACTIVE_USERS \cup {room_id} |->
                  IF r = room_id
                  THEN (uid :> now) @@ (IF r \in DOMAIN ACTIVE_USERS
                                        THEN ACTIVE_USERS[r] ELSE EmptyDict)
                  ELSE ACTIVE_USERS[r]],
     themes |-> CHANNEL_THEMES]

\* the users of a dict seen 30 seconds ago or less
RecentlySeen_inclusive(users) ==
    [u \in {x \in DOMAIN users : now - users[x] <= InactiveAfter} |-> users[u]]

\* the users of a dict seen less than 30 seconds ago (lines 119-121, 135-139)
RecentlySeen(users) ==
    [u \in {x \in DOMAIN users : now - users[x] < InactiveAfter} |-> users[u]]

\* get_active_users (lines 110-123)
get_active_users(room_id) ==
    IF room_id \notin DOMAIN ACTIVE_USERS THEN EmptyDict
    ELSE RecentlySeen(ACTIVE_USERS[room_id])

\* cleanup_inactive_users that drops every user of the room
cleanup_inactive_users_all(room_id) ==
    IF room_id \notin DOMAIN ACTIVE_USERS
    THEN [ret |-> None, removed |-> 0, save |-> FALSE, rooms |-> ROOMS,
          lists |-> lists, users |-> ACTIVE_USERS, themes |-> CHANNEL_THEMES]
    ELSE [ret |-> None,
          removed |-> Cardinality(DOMAIN ACTIVE_USERS[room_id]),
          save |-> TRUE, rooms |-> ROOMS, lists |-> lists,
          users |-> [ACTIVE_USERS EXCEPT ![room_id] = EmptyDict],
          themes |-> CHANNEL_THEMES]

\* cleanup_inactive_users (lines 125-143)
cleanup_inactive_users(room_id) ==
    IF room_id \notin DOMAIN ACTIVE_USERS
    THEN [ret |-> None, removed |-> 0, save |-> FALSE, rooms |-> ROOMS,
          lists |-> lists, users |-> ACTIVE_USERS, themes |-> CHANNEL_THEMES]
    ELSE [ret |-> None,
          removed |-> Cardinality(DOMAIN ACTIVE_USERS[room_id])
                        - Cardinality(DOMAIN RecentlySeen(ACTIVE_USERS[room_id])),
          save |-> TRUE, rooms |-> ROOMS, lists |-> lists,
          users |-> [ACTIVE_USERS EXCEPT ![room_id] = RecentlySeen(@)],
          themes |-> CHANNEL_THEMES]

\* get_channel_theme (lines 151-154)
get_channel_theme(room_id) ==
    IF room_id \in DOMAIN CHANNEL_THEMES THEN CHANNEL_THEMES[room_id]
    ELSE "Cinematic Dark"

\* set_channel_theme (lines 156-160)
set_channel_theme(room_id, theme_name) ==
    [ret |-> None, save |-> TRUE, rooms |-> ROOMS, lists |-> lists,
     users |-> ACTIVE_USERS,
     themes |-> (room_id :> theme_name) @@ CHANNEL_THEMES]

\* the value should_cleanup_messages computes (lines 148-149)
should_cleanup_messages(room_id) ==
    Cardinality(DOMAIN get_active_users(room_id)) = 0

\* get_room_stats (lines 162-177) for a registered room; None otherwise
get_room_stats(room_id) ==
    IF room_id \notin DOMAIN ROOMS THEN None
    ELSE LET messages == lists[ROOMS[room_id].messages]
             timestamps == {messages[i].timestamp : i \in 1..Len(messages)} IN
           [message_count |-> Len(messages),
            created_at |-> ROOMS[room_id].created_at,
            last_activity |-> IF timestamps = {} THEN 0
                              ELSE CHOOSE t \in timestamps :
                                     \A u \in timestamps : u <= t]

\* the messages a session sees through its room_data
Messages(s) ==
    IF DOMAIN room_data[s] = {} THEN << >> ELSE lists[room_data[s].messages]

\* the sequence the store holds for a room
RoomMessages(r) == lists[ROOMS[r].messages]

\* ---------------------------------------------------------- the render loop
DisplayWindow == 50                        \* messages[-50:]

Max(a, b) == IF a >= b THEN a ELSE b

\* messages[-50:] (line 1072)
Window(messages) ==
    SubSeq(messages, Max(1, Len(messages) - DisplayWindow + 1), Len(messages))

\* the body of the loop (lines 1073-1110) for the message at index i of the
\* window, counted from 0 as enumerate does: the decrypted text with the
\* chain status of lines 1078-1083, or the placeholder of the except branch.
\* `messages` is the whole list, a Python list indexed from 0.
render_message(key, messages, i, msg) ==
    LET decrypted == decrypt(key, msg.encrypted_message)
        chain_valid ==
            IF i > 0 /\ i < Len(messages)
            THEN msg.previous_hash = messages[Max(0, i - 1) + 1].hash
            ELSE TRUE
    IN IF decrypted.raised
       THEN [kind |-> "placeholder", text |-> "", chain_status |-> ""]
       ELSE [kind |-> "message", text |-> decrypted.value,
             chain_status |-> IF chain_valid THEN "Verified" ELSE "Broken"]

\* a render loop without the try of line 1073: the first message that fails
\* to decrypt ends the loop
render_messages_abort(key, messages) ==
    LET all == [i \in 1..Len(Window(messages)) |->
                   render_message(key, messages, i - 1, Window(messages)[i])]
        bad == {i \in 1..Len(all) : all[i].kind = "placeholder"}
    IN IF bad = {} THEN all
       ELSE SubSeq(all, 1, (CHOOSE i \in bad : \A k \in bad : i <= k) - 1)

\* the loop of line 1072: one output per message of the window, in order
render_messages(key, messages) ==
    [i \in 1..Len(Window(messages)) |->
        render_message(key, messages, i - 1, Window(messages)[i])]

Init ==
    /\ ROOMS = EmptyDict
    /\ lists = [l \in ListIds |-> << >>]
    /\ ACTIVE_USERS = EmptyDict
    /\ CHANNEL_THEMES = EmptyDict
    /\ ENCRYPTION_KEY \in Keys
    /\ \E ok \in BOOLEAN :
         /\ disk = IF ok
                  THEN <<state_data(EmptyDict, lists, EmptyDict, EmptyDict,
                                    ENCRYPTION_KEY)>>
                  ELSE << >>
         /\ failures = IF ok THEN 0 ELSE 1
    /\ lock = 0
    /\ now = 0
    /\ urandom = 0
    /\ pc = [s \in Sessions |-> "main"]
    /\ current_room = [s \in Sessions |-> None]
    /\ room_data = [s \in Sessions |-> EmptyDict]
    /\ message = [s \in Sessions |-> ""]
    /\ previous_hash = [s \in Sessions |-> Genesis]
    /\ encrypted_msg = [s \in Sessions |-> NoToken]
    /\ current_hash = [s \in Sessions |-> Genesis]
    /\ call = [s \in Sessions |-> NoCall]
    /\ ret = [s \in Sessions |-> None]
    /\ sent = {}
    /\ acked = {}
    /\ cleared = {}
    /\ page = [s \in Sessions |-> << >>]
    /\ button = [s \in Sessions |-> "none"]
    /\ auto_updater = [s \in Sessions |-> UltraFastAutoUpdater]
    /\ seen = [s \in Sessions |-> {}]

\* the clock advances; it is observed every InactiveAfter seconds, `ticks`
\* times at most
TickTo(ticks) ==
    /\ now < ticks * InactiveAfter
    /\ now' = now + InactiveAfter
    /\ UNCHANGED <<store, lock, urandom, failures, pc, current_room, room_data, local,
                   call, ret, ghost>>

Tick == TickTo(MaxTime)

\* a store method whose failed write undoes the method's effect in memory
\* and makes it report failure
Return_rollback(s, res, ok, rd) ==
    /\ ROOMS' = IF ok THEN res.rooms ELSE ROOMS
    /\ ACTIVE_USERS' = IF ok THEN res.users ELSE ACTIVE_USERS
    /\ CHANNEL_THEMES' = IF ok THEN res.themes ELSE CHANNEL_THEMES
    /\ room_data' = [room_data EXCEPT ![s] = rd]
    /\ lists' = Heap(IF ok THEN res.lists ELSE lists, ROOMS', room_data')
    /\ ok \/ (res.save /\ failures < MaxSaveFailures)
    /\ disk' = IF res.save
               THEN save_state(ok, res.rooms, res.lists, res.users,
                               res.themes, ENCRYPTION_KEY)
               ELSE disk
    /\ failures' = IF ok THEN failures ELSE failures + 1
    /\ ret' = [ret EXCEPT ![s] = IF ok THEN res.ret ELSE "False"]
    /\ call' = [call EXCEPT ![s] = NoCall]
    /\ lock' = 0
    /\ UNCHANGED <<ENCRYPTION_KEY, now, urandom>>

\* a store method returns: its effect `res` is installed, _save_state runs
\* when the method reached it, the lock is released and the session's
\* script run is over (st.rerun, or the script ends), dropping its locals
Return(s, res, ok, rd) ==
    /\ ROOMS' = res.rooms
    /\ ACTIVE_USERS' = res.users
    /\ CHANNEL_THEMES' = res.themes
    /\ room_data' = [room_data EXCEPT ![s] = rd]
    /\ lists' = Heap(res.lists, res.rooms, room_data')
    /\ ok \/ (res.save /\ failures < MaxSaveFailures)
    /\ disk' = IF res.save
               THEN save_state(ok, res.rooms, res.lists, res.users,
                               res.themes, ENCRYPTION_KEY)
               ELSE disk
    /\ failures' = IF ok THEN failures ELSE failures + 1
    /\ ret' = [ret EXCEPT ![s] = res.ret]
    /\ call' = [call EXCEPT ![s] = NoCall]
    /\ lock' = 0
    /\ UNCHANGED <<ENCRYPTION_KEY, now, urandom>>

\* create_room_section (lines 947-950): CREATE clicked on the landing page
create_room_section(s, room_name, room_id) ==
    /\ pc[s] = "main" /\ current_room[s] = None
    /\ strip(room_name) # ""
    /\ room_id \in DOMAIN ROOMS \/ FreeLists # {}
    /\ lock = 0
    /\ lock' = s
    /\ pc' = [pc EXCEPT ![s] = "create_room"]
    /\ call' = [call EXCEPT ![s] = [NoCall EXCEPT !.room_id = room_id,
                                                  !.room_name = strip(room_name)]]
    /\ ret' = [ret EXCEPT ![s] = None]
    /\ UNCHANGED <<store, now, urandom, failures, current_room, room_data, local,
                   ghost>>

\* create_room body, then lines 952-960
create_room_return(s, ok) ==
    /\ pc[s] = "create_room" /\ lock = s
    /\ LET res == create_room(call[s].room_id, call[s].room_name) IN
         /\ Return(s, res, ok, EmptyDict)
         /\ current_room' = [current_room EXCEPT ![s] =
                               IF res.ret = "True" THEN call[s].room_id ELSE @]
    /\ pc' = [pc EXCEPT ![s] = "main"]
    /\ UNCHANGED <<local, ghost>>

\* join_room_section (lines 978-981): JOIN clicked with a typed channel id
join_room_section(s, join_id) ==
    /\ pc[s] = "main" /\ current_room[s] = None
    /\ lock = 0
    /\ lock' = s
    /\ pc' = [pc EXCEPT ![s] = "join_get_room"]
    /\ call' = [call EXCEPT ![s] = [NoCall EXCEPT !.room_id = join_id]]
    /\ ret' = [ret EXCEPT ![s] = None]
    /\ UNCHANGED <<store, now, urandom, failures, current_room, room_data, local,
                   ghost>>

\* get_room body, then lines 982-987
join_get_room_return(s) ==
    /\ pc[s] = "join_get_room" /\ lock = s
    /\ LET rd == get_room(call[s].room_id) IN
         /\ current_room' = [current_room EXCEPT ![s] =
                               IF DOMAIN rd # {} THEN call[s].room_id ELSE @]
    /\ pc' = [pc EXCEPT ![s] = "main"]
    /\ call' = [call EXCEPT ![s] = NoCall]
    /\ lock' = 0
    /\ UNCHANGED <<store, now, urandom, failures, room_data, local, ret, ghost>>

\* chat_interface (lines 994-999): a script run of a session that is in a room
chat_interface(s) ==
    /\ pc[s] = "main" /\ current_room[s] # None
    /\ lock = 0
    /\ lock' = s
    /\ pc' = [pc EXCEPT ![s] = "chat_get_room"]
    /\ call' = [call EXCEPT ![s] = [NoCall EXCEPT !.room_id = current_room[s]]]
    /\ ret' = [ret EXCEPT ![s] = None]
    /\ UNCHANGED <<store, now, urandom, failures, current_room, room_data, local,
                   ghost>>

\* get_room body, then lines 1000-1004; the script run goes on at `next`
chat_get_room_body(s, next) ==
    /\ pc[s] = "chat_get_room" /\ lock = s
    /\ LET rd == get_room(call[s].room_id) IN
         /\ room_data' = [room_data EXCEPT ![s] = rd]
         /\ current_room' = [current_room EXCEPT ![s] =
                               IF DOMAIN rd # {} THEN @ ELSE None]
         /\ pc' = [pc EXCEPT ![s] = IF DOMAIN rd # {} THEN next ELSE "main"]
    /\ call' = [call EXCEPT ![s] = NoCall]
    /\ lock' = 0
    /\ UNCHANGED <<store, now, urandom, failures, local, ret, ghost>>

\* get_room body, then lines 1000-1004 and the messages read of line 1054
chat_get_room_return(s) == chat_get_room_body(s, "chat")

\* lines 1127-1131: SEND clicked; previous_hash is read from the script's
\* `messages`, the list object it got from get_room, without the lock
send_clicked(s, text) ==
    /\ pc[s] = "chat"
    /\ text # "" /\ strip(text) # ""
    /\ message' = [message EXCEPT ![s] = text]
    /\ previous_hash' = [previous_hash EXCEPT ![s] =
                           IF Messages(s) # << >>
                           THEN Messages(s)[Len(Messages(s))].hash
                           ELSE Genesis]
    /\ pc' = [pc EXCEPT ![s] = "encrypting"]
    /\ UNCHANGED <<store, lock, now, urandom, failures, current_room, room_data,
                   encrypted_msg, current_hash, page, button, auto_updater, seen, call, ret, ghost>>

\* lines 1134-1144: after the 0.15 s sleep, encrypt with the run's
\* EncryptionHandler() of line 1055 and hash
encrypt_and_hash(s) ==
    /\ pc[s] = "encrypting"
    /\ urandom < MaxRandom
    /\ urandom' = urandom + 1
    /\ LET enc == encrypt(EncryptionHandler(None), strip(message[s]),
                           urandom + 1) IN
         /\ encrypted_msg' = [encrypted_msg EXCEPT ![s] = enc]
         /\ current_hash' = [current_hash EXCEPT ![s] =
               calculate_hash(data_to_hash(enc, previous_hash[s], now))]
    /\ pc' = [pc EXCEPT ![s] = "hashed"]
    /\ UNCHANGED <<store, lock, now, failures, current_room, room_data,
                   message, previous_hash, page, button, auto_updater, seen, call, ret, ghost>>

\* lines 1147-1155: the message object
msg_data(s) ==
    [encrypted_message |-> encrypted_msg[s],
     timestamp |-> now,
     hash |-> current_hash[s],
     previous_hash |-> previous_hash[s],
     user_id |-> user_id(s),
     message_id |-> urandom + 1,
     reactions |-> << >>]

\* lines 1147-1159: build the message object and call add_message
add_message_call(s) ==
    /\ pc[s] = "hashed"
    /\ urandom < MaxRandom
    /\ lock = 0
    /\ lock' = s
    /\ urandom' = urandom + 1
    /\ call' = [call EXCEPT ![s] = [NoCall EXCEPT !.room_id = current_room[s],
                                                  !.message_data = msg_data(s)]]
    /\ sent' = sent \cup {[room_id |-> current_room[s],
                            message_id |-> urandom + 1,
                            plaintext |-> strip(message[s])]}
    /\ message' = [message EXCEPT ![s] = ""]
    /\ previous_hash' = [previous_hash EXCEPT ![s] = Genesis]
    /\ encrypted_msg' = [encrypted_msg EXCEPT ![s] = NoToken]
    /\ current_hash' = [current_hash EXCEPT ![s] = Genesis]
    /\ pc' = [pc EXCEPT ![s] = "add_message"]
    /\ ret' = [ret EXCEPT ![s] = None]
    /\ UNCHANGED <<store, now, failures, current_room, room_data, page, button, auto_updater, seen,
                   acked, cleared>>

\* add_message body, then lines 1160-1165
add_message_return(s, ok) ==
    /\ pc[s] = "add_message" /\ lock = s
    /\ LET res == add_message(call[s].room_id, call[s].message_data) IN
         /\ Return(s, res, ok, EmptyDict)
         /\ acked' = IF res.ret = "True"
                     THEN acked \cup
                            {[room_id |-> call[s].room_id,
                              message_id |-> call[s].message_data.message_id,
                              index |->
                                Len(res.lists[res.rooms[call[s].room_id].messages])]}
                     ELSE acked
    /\ pc' = [pc EXCEPT ![s] = "main"]
    /\ UNCHANGED <<current_room, local, sent, cleared>>

\* lines 921-924: "Clear All Messages" clicked in the sidebar
clear_clicked(s) ==
    /\ pc[s] = "chat"
    /\ FreeLists # {}
    /\ lock = 0
    /\ lock' = s
    /\ call' = [call EXCEPT ![s] = [NoCall EXCEPT !.room_id = current_room[s]]]
    /\ pc' = [pc EXCEPT ![s] = "clear_room_messages"]
    /\ ret' = [ret EXCEPT ![s] = None]
    /\ UNCHANGED <<store, now, urandom, failures, current_room, room_data, local,
                   ghost>>

\* clear_room_messages body, then lines 924-926
clear_room_messages_return(s, ok) ==
    /\ pc[s] = "clear_room_messages" /\ lock = s
    /\ LET res == clear_room_messages(call[s].room_id) IN
         /\ Return(s, res, ok, EmptyDict)
         /\ acked' = IF res.ret = "True"
                     THEN {a \in acked : a.room_id # call[s].room_id}
                     ELSE acked
         /\ cleared' = IF res.ret = "True"
                       THEN cleared \cup {call[s].room_id}
                       ELSE cleared
    /\ pc' = [pc EXCEPT ![s] = "main"]
    /\ UNCHANGED <<current_room, local, sent>>

\* lines 1034-1036: LEAVE clicked
leave(s) ==
    /\ pc[s] = "chat"
    /\ current_room' = [current_room EXCEPT ![s] = None]
    /\ room_data' = [room_data EXCEPT ![s] = EmptyDict]
    /\ lists' = Heap(lists, ROOMS, room_data')
    /\ pc' = [pc EXCEPT ![s] = "main"]
    /\ UNCHANGED <<ROOMS, ACTIVE_USERS, CHANNEL_THEMES, ENCRYPTION_KEY, disk,
                   lock, now, urandom, failures, local, call, ret, ghost>>

\* the script run ends without a click (or st.rerun of line 1023)
rerun(s) ==
    /\ pc[s] = "chat"
    /\ room_data' = [room_data EXCEPT ![s] = EmptyDict]
    /\ lists' = Heap(lists, ROOMS, room_data')
    /\ pc' = [pc EXCEPT ![s] = "main"]
    /\ UNCHANGED <<ROOMS, ACTIVE_USERS, CHANNEL_THEMES, ENCRYPTION_KEY, disk,
                   lock, now, urandom, failures, current_room, local, call, ret, ghost>>

\* add_message called with an id that names no room.  Rooms are never
\* removed, so the send flow always names a registered room; this is any
\* other caller of the store, passing a message object with a new
\* message id.
direct_add_message(s, room_id) ==
    /\ pc[s] = "main" /\ current_room[s] = None
    /\ room_id \notin DOMAIN ROOMS
    /\ urandom < MaxRandom
    /\ lock = 0
    /\ lock' = s
    /\ urandom' = urandom + 1
    /\ call' = [call EXCEPT ![s] = [NoCall EXCEPT !.room_id = room_id,
                                                  !.message_data = msg_data(s)]]
    /\ pc' = [pc EXCEPT ![s] = "add_message"]
    /\ ret' = [ret EXCEPT ![s] = None]
    /\ UNCHANGED <<store, now, failures, current_room, room_data, local, ghost>>

\* clear_room_messages called with an id that names no room
direct_clear_room_messages(s, room_id) ==
    /\ pc[s] = "main" /\ current_room[s] = None
    /\ room_id \notin DOMAIN ROOMS
    /\ lock = 0
    /\ lock' = s
    /\ call' = [call EXCEPT ![s] = [NoCall EXCEPT !.room_id = room_id]]
    /\ pc' = [pc EXCEPT ![s] = "clear_room_messages"]
    /\ ret' = [ret EXCEPT ![s] = None]
    /\ UNCHANGED <<store, now, urandom, failures, current_room, room_data, local,
                   ghost>>

Next ==
    \/ Tick
    \/ \E s \in Sessions, n \in RoomNames, r \in RoomIds :
         create_room_section(s, n, r)
    \/ \E s \in Sessions, ok \in BOOLEAN : create_room_return(s, ok)
    \/ \E s \in Sessions, r \in TypedIds : join_room_section(s, r)
    \/ \E s \in Sessions : join_get_room_return(s)
    \/ \E s \in Sessions : chat_interface(s)
    \/ \E s \in Sessions : chat_get_room_return(s)
    \/ \E s \in Sessions, text \in Inputs : send_clicked(s, text)
    \/ \E s \in Sessions : encrypt_and_hash(s)
    \/ \E s \in Sessions : add_message_call(s)
    \/ \E s \in Sessions, ok \in BOOLEAN : add_message_return(s, ok)
    \/ \E s \in Sessions : clear_clicked(s)
    \/ \E s \in Sessions, ok \in BOOLEAN : clear_room_messages_return(s, ok)
    \/ \E s \in Sessions : leave(s)
    \/ \E s \in Sessions : rerun(s)
    \/ \E s \in Sessions, r \in TypedIds : direct_add_message(s, r)
    \/ \E s \in Sessions, r \in TypedIds : direct_clear_room_messages(s, r)

Spec == Init /\ [][Next]_vars

\* Two rooms side by side: the create, enter and send steps of Next, with
\* two generated room ids and every write of the state file succeeding.
NextRooms ==
    \/ \E s \in Sessions, n \in RoomNames, r \in TwoRoomIds :
         create_room_section(s, n, r)
    \/ \E s \in Sessions : create_room_return(s, TRUE)
    \/ \E s \in Sessions : chat_interface(s)
    \/ \E s \in Sessions : chat_get_room_return(s)
    \/ \E s \in Sessions, text \in Inputs : send_clicked(s, text)
    \/ \E s \in Sessions : encrypt_and_hash(s)
    \/ \E s \in Sessions : add_message_call(s)
    \/ \E s \in Sessions : add_message_return(s, TRUE)
    \/ \E s \in Sessions : leave(s)
    \/ \E s \in Sessions : rerun(s)

SpecRooms == Init /\ [][NextRooms]_vars

\* ----------------------------------------------------------- auto-update
\* the ids of the messages of a room record
MessageIds(rd) ==
    IF DOMAIN rd = {} THEN {}
    ELSE {lists[rd.messages][i].message_id : i \in 1..Len(lists[rd.messages])}

\* lines 1017-1019: at least 0.5 s after the run that last got here, the
\* script notes the time and calls check_for_updates, whose get_room takes
\* the lock
auto_update_call(s) ==
    /\ pc[s] = "auto_update"
    /\ ~WithinInterval(now, auto_updater[s].last_activity_update)
    /\ lock = 0
    /\ lock' = s
    /\ auto_updater' = [auto_updater EXCEPT ![s].last_activity_update = now]
    /\ call' = [call EXCEPT ![s] = [NoCall EXCEPT !.room_id = current_room[s]]]
    /\ pc' = [pc EXCEPT ![s] = "check_for_updates"]
    /\ ret' = [ret EXCEPT ![s] = None]
    /\ UNCHANGED <<store, now, urandom, failures, current_room, room_data,
                   message, previous_hash, encrypted_msg, current_hash, page,
                   button, seen, ghost>>

\* line 1018 is false: the run goes on to draw the chat
auto_update_skip(s) ==
    /\ pc[s] = "auto_update"
    /\ WithinInterval(now, auto_updater[s].last_activity_update)
    /\ pc' = [pc EXCEPT ![s] = "chat"]
    /\ UNCHANGED <<store, lock, now, urandom, failures, current_room, room_data,
                   local, call, ret, ghost>>

\* UltraFastAutoUpdater.check_for_updates (lines 808-827): the value it
\* returns and the updater it leaves, for the room record `rd` read at `t`
check_for_updates(self, rd, t) ==
    LET current_count == Len(lists[rd.messages]) IN
      IF DOMAIN rd = {}
      THEN [ret |-> "False", self |-> self]
      ELSE IF WithinInterval(t, self.last_check_time)
      THEN [ret |-> "False", self |-> self]
      ELSE IF current_count # self.last_message_count
      THEN [ret |-> "True",
            self |-> [self EXCEPT !.last_check_time = t,
                                  !.last_message_count = current_count]]
      ELSE [ret |-> "False", self |-> [self EXCEPT !.last_check_time = t]]

\* get_room and the rest of check_for_updates, then lines 1022-1023: True
\* ends the script run with st.rerun(), False lets it draw the chat
check_for_updates_return(s) ==
    /\ pc[s] = "check_for_updates" /\ lock = s
    /\ LET res == check_for_updates(auto_updater[s], get_room(call[s].room_id),
                                    now) IN
         /\ auto_updater' = [auto_updater EXCEPT ![s] = res.self]
         /\ ret' = [ret EXCEPT ![s] = res.ret]
         /\ seen' = [seen EXCEPT ![s] =
                       IF res.ret = "True"
                       THEN MessageIds(get_room(call[s].room_id)) ELSE @]
         /\ room_data' = [room_data EXCEPT ![s] =
                            IF res.ret = "True" THEN EmptyDict ELSE @]
         /\ pc' = [pc EXCEPT ![s] = IF res.ret = "True" THEN "main" ELSE "chat"]
    /\ lists' = Heap(lists, ROOMS, room_data')
    /\ call' = [call EXCEPT ![s] = NoCall]
    /\ lock' = 0
    /\ UNCHANGED <<ROOMS, ACTIVE_USERS, CHANNEL_THEMES, ENCRYPTION_KEY, disk,
                   now, urandom, failures, current_room, message, previous_hash,
                   encrypted_msg, current_hash, page, button, ghost>>

\* Sessions polling their room: the steps of Next for one generated room
\* id, with the auto-update of lines 1016-1023 between get_room and the
\* chat, every write of the state file succeeding and nobody leaving.
NextUpdater ==
    \/ Tick
    \/ \E s \in Sessions, n \in RoomNames, r \in RoomIds :
         create_room_section(s, n, r)
    \/ \E s \in Sessions : create_room_return(s, TRUE)
    \/ \E s \in Sessions, r \in RoomIds : join_room_section(s, r)
    \/ \E s \in Sessions : join_get_room_return(s)
    \/ \E s \in Sessions : chat_interface(s)
    \/ \E s \in Sessions : chat_get_room_body(s, "auto_update")
    \/ \E s \in Sessions : auto_update_call(s)
    \/ \E s \in Sessions : auto_update_skip(s)
    \/ \E s \in Sessions : check_for_updates_return(s)
    \/ \E s \in Sessions, text \in Inputs : send_clicked(s, text)
    \/ \E s \in Sessions : encrypt_and_hash(s)
    \/ \E s \in Sessions : add_message_call(s)
    \/ \E s \in Sessions : add_message_return(s, TRUE)
    \/ \E s \in Sessions : clear_clicked(s)
    \/ \E s \in Sessions : clear_room_messages_return(s, TRUE)
    \/ \E s \in Sessions : rerun(s)

SpecUpdater == Init /\ [][NextUpdater]_vars

\* ---------------------------------------------------------------- sidebar
MaxIdleTime == 2      \* clock readings 0, 30, .. in the sidebar specifications

\* a store method is called from display_active_users_sidebar: the call
\* site takes the lock
SidebarCall(s, at, method) ==
    /\ pc[s] = at
    /\ lock = 0
    /\ lock' = s
    /\ pc' = [pc EXCEPT ![s] = method]
    /\ call' = [call EXCEPT ![s] = [NoCall EXCEPT !.room_id = current_room[s]]]
    /\ ret' = [ret EXCEPT ![s] = None]
    /\ UNCHANGED <<store, now, urandom, failures, current_room, room_data, local,
                   ghost>>

\* line 867
update_user_activity_call(s) == SidebarCall(s, "sidebar", "update_user_activity")

\* update_user_activity body
update_user_activity_return(s, ok) ==
    /\ pc[s] = "update_user_activity" /\ lock = s
    /\ Return(s, update_user_activity(call[s].room_id, user_id(s)), ok,
              room_data[s])
    /\ pc' = [pc EXCEPT ![s] = "sidebar_cleanup"]
    /\ UNCHANGED <<current_room, local, ghost>>

\* line 870
cleanup_inactive_users_call(s) ==
    SidebarCall(s, "sidebar_cleanup", "cleanup_inactive_users")

\* cleanup_inactive_users body
cleanup_inactive_users_return(s, ok) ==
    /\ pc[s] = "cleanup_inactive_users" /\ lock = s
    /\ Return(s, cleanup_inactive_users(call[s].room_id), ok, room_data[s])
    /\ pc' = [pc EXCEPT ![s] = "sidebar_active"]
    /\ UNCHANGED <<current_room, local, ghost>>

\* line 873
get_active_users_call(s) == SidebarCall(s, "sidebar_active", "get_active_users")

\* get_active_users body; the result is only displayed (lines 888-917)
get_active_users_return(s) ==
    /\ pc[s] = "get_active_users" /\ lock = s
    /\ pc' = [pc EXCEPT ![s] = "sidebar_check"]
    /\ call' = [call EXCEPT ![s] = NoCall]
    /\ lock' = 0
    /\ UNCHANGED <<store, now, urandom, failures, current_room, room_data, local,
                   ret, ghost>>

\* lines 876-885: another theme than the channel's is picked in the
\* selectbox; the name travels in the call's room_name slot
set_channel_theme_call(s, new_theme) ==
    /\ pc[s] = "sidebar_check"
    /\ new_theme # get_channel_theme(current_room[s])
    /\ lock = 0
    /\ lock' = s
    /\ pc' = [pc EXCEPT ![s] = "set_channel_theme"]
    /\ call' = [call EXCEPT ![s] = [NoCall EXCEPT !.room_id = current_room[s],
                                                  !.room_name = new_theme]]
    /\ ret' = [ret EXCEPT ![s] = None]
    /\ UNCHANGED <<store, now, urandom, failures, current_room, room_data, local,
                   ghost>>

\* set_channel_theme body, then st.rerun() (line 886)
set_channel_theme_return(s, ok) ==
    /\ pc[s] = "set_channel_theme" /\ lock = s
    /\ Return(s, set_channel_theme(call[s].room_id, call[s].room_name), ok,
              EmptyDict)
    /\ pc' = [pc EXCEPT ![s] = "main"]
    /\ UNCHANGED <<current_room, local, ghost>>

\* line 919 and line 147: should_cleanup_messages is called and takes the lock
should_cleanup_messages_call(s) ==
    SidebarCall(s, "sidebar_check", "should_cleanup_messages")

\* line 148 and line 112: inside should_cleanup_messages, get_active_users
\* is called and takes the lock, which is not reentrant
should_cleanup_get_active_users(s) ==
    /\ pc[s] = "should_cleanup_messages"
    /\ lock = 0
    /\ lock' = s
    /\ pc' = [pc EXCEPT ![s] = "should_cleanup_get_active_users"]
    /\ UNCHANGED <<store, now, urandom, failures, current_room, room_data, local,
                   call, ret, ghost>>

\* lines 148-149 taken as if the nested get_active_users ran inside the
\* section the caller already holds: the value comes back, the lock is
\* released; without a button in this run a pending click is dropped
should_cleanup_messages_return(s) ==
    /\ pc[s] = "should_cleanup_messages" /\ lock = s
    /\ LET v == should_cleanup_messages(call[s].room_id) IN
         /\ ret' = [ret EXCEPT ![s] = IF v THEN "True" ELSE "False"]
         /\ pc' = [pc EXCEPT ![s] = IF v THEN "sidebar_get_room" ELSE "chat"]
         /\ button' = [button EXCEPT ![s] = IF v THEN @ ELSE "none"]
    /\ call' = [call EXCEPT ![s] = NoCall]
    /\ lock' = 0
    /\ UNCHANGED <<store, now, urandom, failures, current_room, room_data,
                   message, previous_hash, encrypted_msg, current_hash, page, auto_updater, seen,
                   ghost>>

\* line 920: get_room is called again
sidebar_get_room_call(s) ==
    SidebarCall(s, "sidebar_get_room", "sidebar_get_room_body")

\* get_room body, then the length test of line 920
sidebar_get_room_return(s) ==
    /\ pc[s] = "sidebar_get_room_body" /\ lock = s
    /\ LET rd == get_room(call[s].room_id)
           some == DOMAIN rd # {} /\ Len(lists[rd.messages]) > 0
       IN /\ pc' = [pc EXCEPT ![s] = IF some THEN "sidebar_button" ELSE "chat"]
          /\ button' = [button EXCEPT ![s] = IF some THEN @ ELSE "none"]
    /\ call' = [call EXCEPT ![s] = NoCall]
    /\ lock' = 0
    /\ UNCHANGED <<store, now, urandom, failures, current_room, room_data,
                   message, previous_hash, encrypted_msg, current_hash, page, auto_updater, seen,
                   ret, ghost>>

\* line 923: st.button draws the button and returns False when it was not
\* clicked on the page of the previous run
button_shown(s) ==
    /\ pc[s] = "sidebar_button" /\ button[s] # "clicked"
    /\ button' = [button EXCEPT ![s] = "shown"]
    /\ pc' = [pc EXCEPT ![s] = "chat"]
    /\ UNCHANGED <<store, lock, now, urandom, failures, current_room, room_data,
                   message, previous_hash, encrypted_msg, current_hash, page, auto_updater, seen,
                   call, ret, ghost>>

\* the user clicks the button on the page the finished run left
button_clicked(s) ==
    /\ pc[s] = "main" /\ current_room[s] # None /\ button[s] = "shown"
    /\ button' = [button EXCEPT ![s] = "clicked"]
    /\ UNCHANGED <<store, lock, now, urandom, failures, pc, current_room,
                   room_data, message, previous_hash, encrypted_msg,
                   current_hash, page, auto_updater, seen, call, ret, ghost>>

\* lines 923-924: st.button returns True and clear_room_messages is called
sidebar_clear_call(s) ==
    /\ pc[s] = "sidebar_button" /\ button[s] = "clicked"
    /\ FreeLists # {}
    /\ lock = 0
    /\ lock' = s
    /\ button' = [button EXCEPT ![s] = "none"]
    /\ call' = [call EXCEPT ![s] = [NoCall EXCEPT !.room_id = current_room[s]]]
    /\ pc' = [pc EXCEPT ![s] = "clear_room_messages"]
    /\ ret' = [ret EXCEPT ![s] = None]
    /\ UNCHANGED <<store, now, urandom, failures, current_room, room_data,
                   message, previous_hash, encrypted_msg, current_hash, page, auto_updater, seen,
                   ghost>>

\* The script thread of a session in a room, call by call up to the
\* should_cleanup_messages call of line 919, exactly as the lock behaves.
NextLock ==
    \/ TickTo(MaxIdleTime)
    \/ \E s \in Sessions, n \in RoomNames, r \in RoomIds :
         create_room_section(s, n, r)
    \/ \E s \in Sessions, ok \in BOOLEAN : create_room_return(s, ok)
    \/ \E s \in Sessions, r \in TypedIds : join_room_section(s, r)
    \/ \E s \in Sessions : join_get_room_return(s)
    \/ \E s \in Sessions : chat_interface(s)
    \/ \E s \in Sessions : chat_get_room_body(s, "sidebar")
    \/ \E s \in Sessions : update_user_activity_call(s)
    \/ \E s \in Sessions, ok \in BOOLEAN : update_user_activity_return(s, ok)
    \/ \E s \in Sessions : cleanup_inactive_users_call(s)
    \/ \E s \in Sessions, ok \in BOOLEAN : cleanup_inactive_users_return(s, ok)
    \/ \E s \in Sessions : get_active_users_call(s)
    \/ \E s \in Sessions : get_active_users_return(s)
    \/ \E s \in Sessions, t \in Themes : set_channel_theme_call(s, t)
    \/ \E s \in Sessions, ok \in BOOLEAN : set_channel_theme_return(s, ok)
    \/ \E s \in Sessions : should_cleanup_messages_call(s)

SpecLock == Init /\ [][NextLock]_vars

\* The same script thread taken past line 919 with the value lines 148-149
\* compute, then the clear button, the send flow and LEAVE; every write of
\* the state file succeeds.
NextSidebar ==
    \/ TickTo(MaxIdleTime)
    \/ \E s \in Sessions, n \in RoomNames, r \in RoomIds :
         create_room_section(s, n, r)
    \/ \E s \in Sessions : create_room_return(s, TRUE)
    \/ \E s \in Sessions, r \in RoomIds : join_room_section(s, r)
    \/ \E s \in Sessions : join_get_room_return(s)
    \/ \E s \in Sessions : chat_interface(s)
    \/ \E s \in Sessions : chat_get_room_body(s, "sidebar")
    \/ \E s \in Sessions : update_user_activity_call(s)
    \/ \E s \in Sessions : update_user_activity_return(s, TRUE)
    \/ \E s \in Sessions : cleanup_inactive_users_call(s)
    \/ \E s \in Sessions : cleanup_inactive_users_return(s, TRUE)
    \/ \E s \in Sessions : get_active_users_call(s)
    \/ \E s \in Sessions : get_active_users_return(s)
    \/ \E s \in Sessions : should_cleanup_messages_call(s)
    \/ \E s \in Sessions : should_cleanup_messages_return(s)
    \/ \E s \in Sessions : sidebar_get_room_call(s)
    \/ \E s \in Sessions : sidebar_get_room_return(s)
    \/ \E s \in Sessions : button_shown(s)
    \/ \E s \in Sessions : button_clicked(s)
    \/ \E s \in Sessions : sidebar_clear_call(s)
    \/ \E s \in Sessions : clear_room_messages_return(s, TRUE)
    \/ \E s \in Sessions, text \in Inputs : send_clicked(s, text)
    \/ \E s \in Sessions : encrypt_and_hash(s)
    \/ \E s \in Sessions : add_message_call(s)
    \/ \E s \in Sessions : add_message_return(s, TRUE)
    \/ \E s \in Sessions : leave(s)
    \/ \E s \in Sessions : rerun(s)

SpecSidebar == Init /\ [][NextSidebar]_vars

\* ------------------------------------------------- rendering a stored room
MaxOver == 1          \* a stored room holds up to DisplayWindow + MaxOver messages

\* the fields of a stored message that the state file may hold changed
Fields == {"encrypted_message", "timestamp", "user_id", "hash"}

\* the k-th message of a room as the send flow builds it (lines 1127-1155)
\* on top of a message whose hash is prev
ChainMessage(key, prev, k) ==
    LET enc == encrypt(key, strip(" hello "), 2 * k - 1) IN
    [encrypted_message |-> enc,
     timestamp |-> 0,
     hash |-> calculate_hash(data_to_hash(enc, prev, 0)),
     previous_hash |-> prev,
     user_id |-> user_id(1),
     message_id |-> 2 * k,
     reactions |-> << >>]

\* a room's list after n sends one after the other
RECURSIVE Chain(_, _)
Chain(key, n) ==
    IF n = 0 THEN << >>
    ELSE LET c == Chain(key, n - 1) IN
         Append(c, ChainMessage(key,
                                IF c = << >> THEN Genesis ELSE c[Len(c)].hash,
                                n))

\* the list with one field of message j changed: a token that no key
\* authenticates, another time, another sender, the digest of other data
Tamper(msgs, j, f) ==
    IF f = "none" THEN msgs
    ELSE [msgs EXCEPT ![j] =
            CASE f = "encrypted_message" ->
                   [@ EXCEPT !.encrypted_message = [@ EXCEPT !.key = ""]]
              [] f = "timestamp" -> [@ EXCEPT !.timestamp = @ + 1]
              [] f = "user_id" -> [@ EXCEPT !.user_id = @ + 1]
              [] f = "hash" ->
                   [@ EXCEPT !.hash =
                       calculate_hash(data_to_hash(msgs[j].encrypted_message,
                                                   msgs[j].previous_hash,
                                                   msgs[j].timestamp + 1))]]

\* the session that opens the stored room
Viewer == CHOOSE s \in Sessions : \A t \in Sessions : s <= t

\* _load_state with a state file (lines 33-40): the process starts with the
\* one room the file holds, whose list is a chain of sends, as written or
\* with one field of one message changed in the file
InitRender ==
    /\ ENCRYPTION_KEY \in Keys
    /\ \E r \in RoomIds, n \in 0..(DisplayWindow + MaxOver),
          f \in Fields \cup {"none"} :
         \E j \in (IF f = "none" THEN {0} ELSE 1..n) :
           /\ ROOMS = (r :> [messages |-> 1, created_at |-> 0, name |-> "Test",
                             room_id |-> r, message_count |-> 0])
           /\ lists = [l \in ListIds |->
                         IF l = 1 THEN Tamper(Chain(ENCRYPTION_KEY, n), j, f)
                         ELSE << >>]
           /\ ACTIVE_USERS = (r :> EmptyDict)
           /\ CHANNEL_THEMES = (r :> "Cinematic Dark")
    /\ disk = <<state_data(ROOMS, lists, ACTIVE_USERS, CHANNEL_THEMES,
                           ENCRYPTION_KEY)>>
    /\ failures = 0
    /\ lock = 0
    /\ now = 0
    /\ urandom = 0
    /\ pc = [s \in Sessions |-> "main"]
    /\ current_room = [s \in Sessions |-> None]
    /\ room_data = [s \in Sessions |-> EmptyDict]
    /\ message = [s \in Sessions |-> ""]
    /\ previous_hash = [s \in Sessions |-> Genesis]
    /\ encrypted_msg = [s \in Sessions |-> NoToken]
    /\ current_hash = [s \in Sessions |-> Genesis]
    /\ call = [s \in Sessions |-> NoCall]
    /\ ret = [s \in Sessions |-> None]
    /\ sent = {}
    /\ acked = {}
    /\ cleared = {}
    /\ page = [s \in Sessions |-> << >>]
    /\ button = [s \in Sessions |-> "none"]
    /\ auto_updater = [s \in Sessions |-> UltraFastAutoUpdater]
    /\ seen = [s \in Sessions |-> {}]

\* lines 1054-1110: the script run renders the room it holds
render(s) ==
    /\ pc[s] = "chat"
    /\ page' = [page EXCEPT ![s] =
                   render_messages(EncryptionHandler(None), Messages(s))]
    /\ pc' = [pc EXCEPT ![s] = "rendered"]
    /\ UNCHANGED <<store, lock, now, urandom, failures, current_room, room_data,
                   message, previous_hash, encrypted_msg, current_hash, button, auto_updater, seen,
                   call, ret, ghost>>

\* the viewer joins the stored room and its script run renders it
NextRender ==
    \/ \E r \in TypedIds : join_room_section(Viewer, r)
    \/ join_get_room_return(Viewer)
    \/ chat_interface(Viewer)
    \/ chat_get_room_return(Viewer)
    \/ render(Viewer)

SpecRender == InitRender /\ [][NextRender]_vars

\* ------------------------------------------------------------------ claims
\* the hash of the last message of a sequence, or the genesis constant
TailHash(msgs) == IF msgs = << >> THEN Genesis ELSE msgs[Len(msgs)].hash

\* session s is inside the body of store method `op` and returns in this step
Returns(s, op) == pc[s] = op /\ pc'[s] # op

\* the sessions whose script run holds a room_data from get_room
Holding == {"chat", "encrypting", "hashed"}

\* C1: in every reachable state, every message after the first of a room is
\* chained to its predecessor: messages[i].previous_hash = messages[i-1].hash.
ChainIntegrity ==
    \A r \in DOMAIN ROOMS :
        \A i \in 2..Len(RoomMessages(r)) :
            RoomMessages(r)[i].previous_hash = RoomMessages(r)[i - 1].hash

\* C2: an add_message call whose message is not chained to the room's
\* current last hash is rejected and leaves the room's sequence unchanged.
AppendRevalidatesTail ==
    [][\A s \in Sessions :
         (/\ Returns(s, "add_message")
          /\ call[s].room_id \in DOMAIN ROOMS
          /\ call[s].message_data.previous_hash
               # TailHash(RoomMessages(call[s].room_id)))
         => (/\ ret'[s] = "False"
             /\ lists'[ROOMS'[call[s].room_id].messages]
                  = RoomMessages(call[s].room_id))]_vars

\* the message ids a room's sequence holds, and those handed to add_message
\* by calls that have not returned yet
StoredIds(r) == {RoomMessages(r)[i].message_id : i \in 1..Len(RoomMessages(r))}
InFlightIds(r) ==
    {call[s].message_data.message_id :
        s \in {x \in Sessions : pc[x] = "add_message" /\ call[x].room_id = r}}
SentIds(r) == {m.message_id : m \in {x \in sent : x.room_id = r}}

\* C3: in a room that was never cleared, the sequence holds every message
\* whose send has completed, each exactly once, and nothing else.
NoLostOrDuplicatedAppends ==
    \A r \in DOMAIN ROOMS \ cleared :
        /\ StoredIds(r) = SentIds(r) \ InFlightIds(r)
        /\ Len(RoomMessages(r)) = Cardinality(StoredIds(r))

\* C3 witness: two sessions read the same tail and both sends completed.
ConcurrentSendsCompleted ==
    \E r \in DOMAIN ROOMS \ cleared :
        /\ Len(RoomMessages(r)) = 2
        /\ RoomMessages(r)[1].user_id # RoomMessages(r)[2].user_id
        /\ RoomMessages(r)[1].previous_hash = RoomMessages(r)[2].previous_hash

\* the digest of a message's own stored fields in the documented order
\* (ciphertext, timestamp, prevHash, senderId)
ComputeHash(m) ==
    calculate_hash(<<m.encrypted_message, m.timestamp, m.previous_hash,
                     m.user_id>>)

\* C4: every stored message's hash is the digest of its own stored fields
\* (ciphertext, timestamp, prevHash, senderId).
HashCorrectness ==
    \A r \in DOMAIN ROOMS :
        \A i \in 1..Len(RoomMessages(r)) :
            RoomMessages(r)[i].hash = ComputeHash(RoomMessages(r)[i])

\* C5: the first message of every non-empty room has previous_hash equal to
\* the genesis constant.
GenesisInvariant ==
    \A r \in DOMAIN ROOMS :
        RoomMessages(r) # << >> => RoomMessages(r)[1].previous_hash = Genesis

\* C6: a successful clear leaves the room with no messages, and the next
\* message appended to a cleared room carries the genesis constant.
ClearThenContinue ==
    [][\A s \in Sessions :
         /\ (Returns(s, "clear_room_messages")
               /\ call[s].room_id \in DOMAIN ROOMS)
            => lists'[ROOMS'[call[s].room_id].messages] = << >>
         /\ (/\ Returns(s, "add_message")
             /\ call[s].room_id \in cleared
             /\ RoomMessages(call[s].room_id) = << >>
             /\ lists'[ROOMS'[call[s].room_id].messages] # << >>)
            => lists'[ROOMS'[call[s].room_id].messages][1].previous_hash
                 = Genesis]_vars

\* C7: every step leaves a room's sequence unchanged, extends it by one
\* record at the end, or replaces it by the empty sequence.
AppendOnly ==
    [][\A r \in DOMAIN ROOMS :
         /\ r \in DOMAIN ROOMS'
         /\ LET old == RoomMessages(r)
                new == lists'[ROOMS'[r].messages]
            IN \/ new = old
               \/ Len(new) = Len(old) + 1 /\ SubSeq(new, 1, Len(old)) = old
               \/ new = << >>]_vars

\* C7 witness: a room was cleared and then took two appends.
ClearedRoomGrewAgain ==
    \E r \in DOMAIN ROOMS \cap cleared : Len(RoomMessages(r)) = 2

\* C8: a get_room that returns after add_message returned True (and before a
\* clear of the room) shows that message at the index it was appended at.
AckedMessagesVisible ==
    [][\A s \in Sessions :
         (Returns(s, "chat_get_room") /\ call[s].room_id \in DOMAIN ROOMS)
         => \A a \in acked :
               a.room_id = call[s].room_id
               => /\ a.index <= Len(lists'[room_data'[s].messages])
                  /\ lists'[room_data'[s].messages][a.index].message_id
                       = a.message_id]_vars

\* C8 witness: a session's get_room returned a room with two acknowledged
\* messages.
SnapshotShowsTwoAcked ==
    \E s \in Sessions :
        /\ pc[s] = "chat"
        /\ Len(Messages(s)) = 2
        /\ Cardinality({a \in acked : a.room_id = current_room[s]}) = 2

\* C9: the message sequence a caller holds from a completed get_room call
\* does not change while the caller holds it, whatever other sessions do.
SnapshotImmutable ==
    [][\A s \in Sessions :
         (pc[s] \in Holding /\ pc'[s] \in Holding)
         => lists'[room_data'[s].messages] = Messages(s)]_vars

\* C10: add_message, clear_room_messages and get_room on an id that names no
\* room report failure (False, False, empty) and change nothing.
UnregisteredRoomNoEffect ==
    [][\A s \in Sessions :
         (/\ call[s].room_id \notin DOMAIN ROOMS
          /\ \/ Returns(s, "add_message")
             \/ Returns(s, "clear_room_messages")
             \/ Returns(s, "join_get_room")
             \/ Returns(s, "chat_get_room"))
         => /\ ROOMS' = ROOMS
            /\ lists' = lists
            /\ ACTIVE_USERS' = ACTIVE_USERS
            /\ CHANNEL_THEMES' = CHANNEL_THEMES
            /\ pc[s] \in {"add_message", "clear_room_messages"}
                 => ret'[s] = "False"
            /\ pc[s] \in {"join_get_room", "chat_get_room"}
                 => DOMAIN room_data'[s] = {} /\ current_room'[s] = None]_vars

\* C10 witness: with no room registered at all, a store call came back False.
UnregisteredCallReturnedFalse ==
    \E s \in Sessions : DOMAIN ROOMS = {} /\ ret[s] = "False"

\* C11: once a room exists, no step of the running process changes the key
\* its messages are encrypted and decrypted with, and every message the room
\* holds was encrypted with that key.
RoomKeyStable ==
    [][DOMAIN ROOMS # {}
       => /\ EncryptionHandler(None)' = EncryptionHandler(None)
          /\ \A r \in DOMAIN ROOMS' :
                \A i \in 1..Len(lists'[ROOMS'[r].messages]) :
                   lists'[ROOMS'[r].messages][i].encrypted_message.key
                     = EncryptionHandler(None)]_vars

\* C11 witness: a room that was cleared holds two messages sent after the
\* clock advanced.
KeyUsedAfterClearAndTick ==
    \E r \in DOMAIN ROOMS \cap cleared :
        /\ now > 0
        /\ Len(RoomMessages(r)) = 2
        /\ \A i \in 1..2 : RoomMessages(r)[i].timestamp = now

\* the key a room's messages are encrypted and decrypted with: the
\* EncryptionHandler() of line 1055 is made without reference to the room
RoomKey(room_id) == EncryptionHandler(None)

\* C12: for any two distinct rooms A and B, decrypting a message stored in A
\* with the key of B fails.
DecryptionIsolation ==
    \A a \in DOMAIN ROOMS : \A b \in DOMAIN ROOMS \ {a} :
        \A i \in 1..Len(RoomMessages(a)) :
            decrypt(RoomKey(b), RoomMessages(a)[i].encrypted_message).raised

\* C13: when a session's script run is at the render loop, each message of
\* the window that the send flow handed over with stripped plaintext P is
\* rendered as a message whose text is exactly P.
RoundTripThroughStore ==
    \A s \in Sessions :
        pc[s] = "chat"
        => LET out == render_messages(EncryptionHandler(None), Messages(s)) IN
           \A i \in 1..Len(Window(Messages(s))) :
               \A m \in sent :
                   m.message_id = Window(Messages(s))[i].message_id
                   => out[i].kind = "message" /\ out[i].text = m.plaintext

\* C13 witness: a session renders a room holding a message another session
\* sent, and the first output is the text "hello".
RendersAnotherSessionsMessage ==
    \E s \in Sessions :
        /\ pc[s] = "chat"
        /\ Len(Messages(s)) = 2
        /\ Messages(s)[1].user_id # user_id(s)
        /\ Messages(s)[1].message_id \in {m.message_id : m \in sent}
        /\ render_messages(EncryptionHandler(None), Messages(s))[1].text = "hello"

\* the index in the whole list of the i-th output of a session's page
FullIndex(s, i) == Len(Messages(s)) - Len(Window(Messages(s))) + i

\* the indices at which a list differs from the chain of sends of its length
TamperedAt(msgs) ==
    LET c == Chain(ENCRYPTION_KEY, Len(msgs)) IN
    {j \in 1..Len(msgs) : msgs[j] # c[j]}

\* C14: when a stored chain of at least 2 messages has one message with a
\* changed ciphertext, timestamp, sender id or hash, the rendered page shows
\* some message at or after the changed index without the Verified mark
\* (as Broken, or as the placeholder).
TamperReported ==
    \A s \in Sessions :
        (pc[s] = "rendered" /\ Len(Messages(s)) >= 2)
        => \A j \in TamperedAt(Messages(s)) :
              \E i \in 1..Len(page[s]) :
                  /\ FullIndex(s, i) >= j
                  /\ page[s][i].chain_status # "Verified"

\* C15: the rendered page holds exactly one output per message of the
\* window, in order: the decrypted text where the token decrypts, the
\* placeholder where it does not, whatever came before it.
RenderIsolatesFailures ==
    \A s \in Sessions :
        pc[s] = "rendered"
        => /\ Len(page[s]) = Len(Window(Messages(s)))
           /\ \A i \in 1..Len(page[s]) :
                 LET d == decrypt(EncryptionHandler(None),
                                  Window(Messages(s))[i].encrypted_message)
                 IN IF d.raised
                    THEN page[s][i].kind = "placeholder"
                    ELSE page[s][i].kind = "message"
                           /\ page[s][i].text = d.value

\* C15 witness: a page whose first output is the placeholder and whose
\* later outputs are decrypted messages.
PlaceholderThenMessages ==
    \E s \in Sessions :
        /\ pc[s] = "rendered"
        /\ Len(page[s]) >= 3
        /\ page[s][1].kind = "placeholder"
        /\ \A i \in 2..Len(page[s]) : page[s][i].kind = "message"

\* C17: a displayed message other than the room's first is marked Verified
\* exactly when its previous_hash is the hash of the message stored just
\* before it in the room's whole list.
StatusAgainstTruePredecessor ==
    \A s \in Sessions :
        pc[s] = "rendered"
        => \A i \in 1..Len(page[s]) :
              (FullIndex(s, i) > 1 /\ page[s][i].kind = "message")
              => (page[s][i].chain_status = "Verified"
                    <=> Messages(s)[FullIndex(s, i)].previous_hash
                          = Messages(s)[FullIndex(s, i) - 1].hash)

\* C18: a create_room call with a registered id returns False and leaves
\* the room record and its messages as they were; a call with an id that is
\* not registered returns True and registers it, so of the calls made with
\* one id exactly the first to take the lock returns True.
CreateRoomNeverOverwrites ==
    [][\A s \in Sessions :
         Returns(s, "create_room")
         => IF call[s].room_id \in DOMAIN ROOMS
            THEN /\ ret'[s] = "False"
                 /\ ROOMS' = ROOMS
                 /\ lists'[ROOMS'[call[s].room_id].messages]
                      = RoomMessages(call[s].room_id)
            ELSE /\ ret'[s] = "True"
                 /\ call[s].room_id \in DOMAIN ROOMS']_vars

\* C18 witness: a session is inside create_room with the id of a room that
\* another session created and that already holds a message.
CreateCalledOnRoomWithMessages ==
    \E s \in Sessions :
        /\ pc[s] = "create_room"
        /\ call[s].room_id \in DOMAIN ROOMS
        /\ RoomMessages(call[s].room_id) # << >>
        /\ \E t \in Sessions \ {s} : current_room[t] = call[s].room_id

\* the store methods of the sidebar specifications, by the pc of a session
\* that is inside one
StoreMethods ==
    {"create_room", "join_get_room", "chat_get_room", "update_user_activity",
     "cleanup_inactive_users", "get_active_users", "set_channel_theme",
     "should_cleanup_messages"}

\* the step a session inside a store method takes next: the body runs to
\* its return, or takes the lock for the call it makes
StoreStep(s) ==
    \/ \E ok \in BOOLEAN : create_room_return(s, ok)
    \/ join_get_room_return(s)
    \/ chat_get_room_body(s, "sidebar")
    \/ \E ok \in BOOLEAN : update_user_activity_return(s, ok)
    \/ \E ok \in BOOLEAN : cleanup_inactive_users_return(s, ok)
    \/ get_active_users_return(s)
    \/ \E ok \in BOOLEAN : set_channel_theme_return(s, ok)
    \/ should_cleanup_get_active_users(s)

\* C16: no call blocks forever: a session inside a store method holds the
\* lock and can take its next step towards returning and releasing it.
NoCallBlocksForever ==
    \A s \in Sessions :
        pc[s] \in StoreMethods => lock = s /\ ENABLED StoreStep(s)

\* C19: a room in which no user has been active for 30 seconds ends up
\* empty: once every session has left and no call is in progress, so that
\* nothing runs for the room until a user acts, it holds no messages.
IdleRoomIsCleared ==
    \A r \in DOMAIN ROOMS :
        (/\ lock = 0
         /\ \A s \in Sessions : pc[s] = "main" /\ current_room[s] = None
         /\ should_cleanup_messages(r))
        => RoomMessages(r) = << >>

NewMessagesDetected ==
    [][\A s \in Sessions :
         (/\ Returns(s, "check_for_updates")
          /\ ~WithinInterval(now, auto_updater[s].last_check_time)
          /\ MessageIds(get_room(call[s].room_id)) \ seen[s] # {})
         => ret'[s] = "True"]_vars

\* C22: a failed write of the state file neither loses nor rolls back the
\* append.  When add_message on a registered room returns after a write
\* that failed, the room's list is the old list with the message appended
\* once, the call returns True, and get_room returns a record whose list
\* ends with the message.
FailedSaveKeepsMessage ==
    [][\A s \in Sessions :
         (/\ Returns(s, "add_message")
          /\ call[s].room_id \in DOMAIN ROOMS
          /\ failures' = failures + 1)
         => LET r == call[s].room_id
                after == lists'[ROOMS'[r].messages] IN
              /\ ret'[s] = "True"
              /\ r \in DOMAIN ROOMS'
              /\ after = Append(RoomMessages(r), call[s].message_data)
              /\ Cardinality({i \in 1..Len(after) :
                    after[i].message_id = call[s].message_data.message_id}) = 1
       ]_vars

\* a message that is in memory and not in the state file, read by a session
\* that entered the room after the failed write
UnsavedMessageRead ==
    \E s \in Sessions, r \in DOMAIN ROOMS :
      /\ failures = 1
      /\ disk # << >>
      /\ r \in DOMAIN disk[1].rooms
      /\ disk[1].rooms[r].messages = << >>
      /\ pc[s] = "chat" /\ current_room[s] = r
      /\ Len(Messages(s)) = 1
      /\ Messages(s) = RoomMessages(r)

\* the store a new process would have after loading the state file
Reloaded == load_state(disk[1])

\* C23: the state file tracks memory.  While no call holds the lock and no
\* write has failed, the file exists and a store loaded from it has the
\* rooms, message sequences, key, activity table and themes of the store in
\* memory.
PersistedTracksMemory ==
    (lock = 0 /\ failures = 0)
    => /\ disk # << >>
       /\ DOMAIN Reloaded.ROOMS = DOMAIN ROOMS
       /\ \A r \in DOMAIN ROOMS :
            /\ Reloaded.lists[Reloaded.ROOMS[r].messages] = RoomMessages(r)
            /\ [Reloaded.ROOMS[r] EXCEPT !.messages = 0]
                 = [ROOMS[r] EXCEPT !.messages = 0]
       /\ Reloaded.ENCRYPTION_KEY = ENCRYPTION_KEY
       /\ Reloaded.ACTIVE_USERS = ACTIVE_USERS
       /\ Reloaded.CHANNEL_THEMES = CHANNEL_THEMES

\* two messages in memory, in the order of their ids, and the same two in a
\* store loaded from the file
TwoMessagesReloaded ==
    \E r \in DOMAIN ROOMS :
      /\ lock = 0 /\ failures = 0
      /\ Len(RoomMessages(r)) = 2
      /\ RoomMessages(r)[1].message_id < RoomMessages(r)[2].message_id
      /\ disk # << >>
      /\ r \in DOMAIN Reloaded.ROOMS
      /\ Reloaded.lists[Reloaded.ROOMS[r].messages] = RoomMessages(r)

\* the users tracked for a room
Tracked(r) == IF r \in DOMAIN ACTIVE_USERS THEN DOMAIN ACTIVE_USERS[r] ELSE {}

\* C24: get_active_users is exact and reads only.  When a get_active_users
\* call returns, the dict it computes for any room id holds exactly the
\* tracked users whose timestamp is less than 30 seconds old, each with
\* that timestamp, nothing for a room that is not tracked, and the store is
\* as it was.  The timestamp of a tracked user is the time of the user's
\* last update_user_activity: a step writes it only as the return of that
\* user's update_user_activity, with the time of the call.
ActiveUsersExact ==
    [][/\ \A s \in Sessions :
            Returns(s, "get_active_users")
            => /\ \A r \in TypedIds :
                    LET res == get_active_users(r) IN
                      /\ DOMAIN res = {u \in Tracked(r) :
                            now - ACTIVE_USERS[r][u] < 30}
                      /\ \A u \in DOMAIN res : res[u] = ACTIVE_USERS[r][u]
                      /\ r \notin DOMAIN ACTIVE_USERS => res = EmptyDict
               /\ UNCHANGED store
       /\ \A r \in DOMAIN ACTIVE_USERS' : \A u \in DOMAIN ACTIVE_USERS'[r] :
            \/ /\ u \in Tracked(r)
               /\ ACTIVE_USERS'[r][u] = ACTIVE_USERS[r][u]
            \/ /\ Returns(u, "update_user_activity")
               /\ call[u].room_id = r
               /\ ACTIVE_USERS'[r][u] = now
      ]_vars

\* get_active_users has returned for a room with two tracked users, one of
\* them seen 30 seconds ago and left out of the result
OneOfTwoActive ==
    \E s \in Sessions, r \in DOMAIN ACTIVE_USERS :
      /\ pc[s] = "sidebar_check" /\ current_room[s] = r
      /\ Cardinality(DOMAIN ACTIVE_USERS[r]) = 2
      /\ Cardinality(DOMAIN get_active_users(r)) = 1
      /\ \E u \in DOMAIN ACTIVE_USERS[r] : now - ACTIVE_USERS[r][u] = 30

\* the tracked users of a room whose timestamp is 30 seconds old or more
Stale(r) == {u \in Tracked(r) : now - ACTIVE_USERS[r][u] >= 30}

\* C25: cleanup_inactive_users removes the stale users and nothing else.
\* When a call for a tracked room returns, the room's table is the old one
\* without the users last seen 30 seconds ago or more, the others keep
\* their timestamps, the value returned is the number removed, and ROOMS,
\* every message sequence, the themes and the tables of the other rooms are
\* as they were.
CleanupRemovesOnlyStale ==
    [][\A s \in Sessions :
         (Returns(s, "cleanup_inactive_users")
          /\ call[s].room_id \in DOMAIN ACTIVE_USERS)
         => LET r == call[s].room_id IN
              /\ DOMAIN ACTIVE_USERS' = DOMAIN ACTIVE_USERS
              /\ DOMAIN ACTIVE_USERS'[r] = Tracked(r) \ Stale(r)
              /\ \A u \in DOMAIN ACTIVE_USERS'[r] :
                    ACTIVE_USERS'[r][u] = ACTIVE_USERS[r][u]
              /\ cleanup_inactive_users(r).removed = Cardinality(Stale(r))
              /\ \A q \in DOMAIN ACTIVE_USERS \ {r} :
                    ACTIVE_USERS'[q] = ACTIVE_USERS[q]
              /\ ROOMS' = ROOMS
              /\ \A q \in DOMAIN ROOMS :
                    lists'[ROOMS'[q].messages] = RoomMessages(q)
              /\ UNCHANGED <<CHANNEL_THEMES, ENCRYPTION_KEY>>
      ]_vars

\* a cleanup has returned that kept its caller, seen just now, and removed
\* the other session of the room, which was seen 30 seconds before; the
\* room still holds its messages
StaleUserRemoved ==
    \E s \in Sessions, t \in Sessions, r \in DOMAIN ACTIVE_USERS :
      /\ s # t
      /\ pc[s] = "sidebar_active" /\ current_room[s] = r
      /\ pc[t] = "sidebar_cleanup" /\ current_room[t] = r
      /\ DOMAIN ACTIVE_USERS[r] = {s}
      /\ ACTIVE_USERS[r][s] = now
      /\ r \in DOMAIN ROOMS /\ RoomMessages(r) # << >>

\* C26: a room's identity is permanent.  A registered room (create_room
\* returned True for its id) is registered in the next state, get_room
\* returns a non-empty record for it, and its name, room_id and created_at
\* are what they were.
RoomIdentityPermanent ==
    [][\A r \in DOMAIN ROOMS :
         /\ r \in DOMAIN ROOMS'
         /\ DOMAIN (get_room(r))' # {}
         /\ (get_room(r))'.name = ROOMS[r].name
         /\ (get_room(r))'.room_id = ROOMS[r].room_id
         /\ (get_room(r))'.created_at = ROOMS[r].created_at
      ]_vars

\* a room created at time 0 that was cleared and holds a message sent 30
\* seconds later, still with the name, id and creation time it was given
OldRoomAfterClear ==
    \E r \in DOMAIN ROOMS :
      /\ r \in cleared
      /\ RoomMessages(r) # << >>
      /\ RoomMessages(r)[1].timestamp > ROOMS[r].created_at
      /\ ROOMS[r].name \in RoomNames
      /\ ROOMS[r].room_id = r

\* C27: the lock is per room.  A session that is about to call add_message
\* for its room, while another session is inside add_message for a
\* different room, does not have to wait: its call can take the lock.
NeverWaitsForOtherRoom ==
    \A s \in Sessions, t \in Sessions :
        (/\ s # t
         /\ pc[s] = "hashed" /\ urandom < MaxRandom
         /\ pc[t] = "add_message" /\ lock = t
         /\ call[t].room_id # current_room[s])
        => ENABLED add_message_call(s)

\* C28: the stored message_count of a room record is the number of
\* messages in the room's sequence, and is the message_count that
\* get_room_stats reports.
MessageCountMatches ==
    \A r \in DOMAIN ROOMS :
        /\ ROOMS[r].message_count = Len(RoomMessages(r))
        /\ ROOMS[r].message_count = get_room_stats(r).message_count
====
